---- MODULE Spec2Model ----
(***************************************************************************)
(* Rounded polygon engine (RoundedPolygon, Vector2) and the clip-path      *)
(* directive that drives it.                                               *)
(*                                                                         *)
(* JavaScript numbers are modelled as fixed-point values with SCALE units  *)
(* per 1.0, extended with the IEEE-754 specials NaN, +Infinity and         *)
(* -Infinity.  Products and quotients truncate toward zero.  No operation  *)
(* of the code throws: a division by zero yields Infinity or NaN exactly   *)
(* as in JavaScript.  All zero divisors of the code are +0 (lengths,       *)
(* sines of angles in [0, pi]), so the sign of zero is not modelled.       *)
(***************************************************************************)
EXTENDS Integers, Sequences, FiniteSets, TLC

\* ------------------------------------------------------------------ bounds
SCALE == 1000
MaxLen == 4
MaxCalls == 2
MaxDraws == 3

\* ------------------------------------------------------- number (IEEE-like)
Fin(n) == [k |-> "fin", v |-> n]
NaN == [k |-> "nan", v |-> 0]
PosInf == [k |-> "inf", v |-> 1]
NegInf == [k |-> "inf", v |-> -1]
Num(n) == Fin(n * SCALE)

IsNaN(a) == a.k = "nan"
IsInf(a) == a.k = "inf"
IsFin(a) == a.k = "fin"
IsZero(a) == a.k = "fin" /\ a.v = 0

Abs(n) == IF n < 0 THEN -n ELSE n
Sgn(n) == IF n < 0 THEN -1 ELSE IF n > 0 THEN 1 ELSE 0
\* sign of a number that is not NaN
SignOf(a) == IF a.k = "inf" THEN a.v ELSE Sgn(a.v)
\* integer quotient truncated toward zero
TruncDiv(a, b) == Sgn(a) * Sgn(b) * (Abs(a) \div Abs(b))

FNeg(a) == IF a.k = "nan" THEN NaN ELSE [k |-> a.k, v |-> -a.v]

FAdd(a, b) ==
    IF a.k = "nan" \/ b.k = "nan" THEN NaN
    ELSE IF a.k = "inf" /\ b.k = "inf" THEN (IF a.v = b.v THEN a ELSE NaN)
    ELSE IF a.k = "inf" THEN a
    ELSE IF b.k = "inf" THEN b
    ELSE Fin(a.v + b.v)

FSub(a, b) == FAdd(a, FNeg(b))

FMul(a, b) ==
    IF a.k = "nan" \/ b.k = "nan" THEN NaN
    ELSE IF a.k = "inf" \/ b.k = "inf"
         THEN (IF SignOf(a) * SignOf(b) = 0 THEN NaN
               ELSE [k |-> "inf", v |-> SignOf(a) * SignOf(b)])
    ELSE Fin(TruncDiv(a.v * b.v, SCALE))

FDiv(a, b) ==
    IF a.k = "nan" \/ b.k = "nan" THEN NaN
    ELSE IF a.k = "inf" THEN (IF b.k = "inf" THEN NaN
                              ELSE [k |-> "inf", v |-> a.v * (IF b.v < 0 THEN -1 ELSE 1)])
    ELSE IF b.k = "inf" THEN Fin(0)
    ELSE IF b.v = 0 THEN (IF a.v = 0 THEN NaN ELSE [k |-> "inf", v |-> Sgn(a.v)])
    ELSE Fin(TruncDiv(a.v * SCALE, b.v))

\* a < b and a <= b of JavaScript: false whenever an operand is NaN
FLt(a, b) ==
    IF a.k = "nan" \/ b.k = "nan" THEN FALSE
    ELSE IF a.k = "inf" THEN a.v = -1 /\ ~(b.k = "inf" /\ b.v = -1)
    ELSE IF b.k = "inf" THEN b.v = 1
    ELSE a.v < b.v

FLe(a, b) == ~(a.k = "nan" \/ b.k = "nan") /\ (a = b \/ FLt(a, b))

\* Math.min / Math.max: NaN if any argument is NaN
MathMin(a, b) == IF a.k = "nan" \/ b.k = "nan" THEN NaN ELSE IF FLt(b, a) THEN b ELSE a
MathMax(a, b) == IF a.k = "nan" \/ b.k = "nan" THEN NaN ELSE IF FLt(a, b) THEN b ELSE a

\* k * k <= n, for k up to 46655 and n below 2^31
SqLe(k, n) == k <= 46340 /\ k * k <= n

\* the largest base + d * unit, d in 0..35, whose square is at most n
ISqrtDigit(n, base, unit) ==
    base + unit * (CHOOSE d \in 0..35 :
                      /\ SqLe(base + d * unit, n)
                      /\ d = 35 \/ ~SqLe(base + (d + 1) * unit, n))

\* the integer square root of n in 0..2^31-1, digit by digit in base 36
ISqrt(n) == ISqrtDigit(n, ISqrtDigit(n, ISqrtDigit(n, 0, 1296), 36), 1)

\* Math.sqrt
MathSqrt(a) ==
    IF a.k = "nan" THEN NaN
    ELSE IF a.k = "inf" THEN (IF a.v = 1 THEN PosInf ELSE NaN)
    ELSE IF a.v < 0 THEN NaN
    ELSE Fin(ISqrt(a.v * SCALE))

\* Math.PI / 2 and Math.PI
HALF_PI == (1570796 * SCALE) \div 1000000
PI == 2 * HALF_PI

\* sine of x in 0..HALF_PI by its Taylor series (units of 1/SCALE)
SinSeries(x) ==
    LET x2 == (x * x) \div SCALE
        t3 == ((x * x2) \div SCALE) \div 6
        t5 == ((t3 * x2) \div SCALE) \div 20
        t7 == ((t5 * x2) \div SCALE) \div 42
        t9 == ((t7 * x2) \div SCALE) \div 72
        s  == x - t3 + t5 - t7 + t9
    IN IF x = HALF_PI \/ s > SCALE THEN SCALE ELSE s

SinTab == [x \in 0..HALF_PI |-> SinSeries(x)]

\* sine of an integer angle in 0..PI; Math.sin(Math.PI) is a positive
\* number below every other value (1.2e-16), never 0
SinFix(x) ==
    IF x = PI THEN 1
    ELSE IF x <= HALF_PI THEN SinTab[x] ELSE SinTab[PI - x]

\* cosine of an integer angle in 0..PI
CosFix(x) == IF x <= HALF_PI THEN SinTab[HALF_PI - x] ELSE -SinTab[x - HALF_PI]

\* Math.sin: the argument is reduced to one turn
MathSin(a) ==
    IF a.k # "fin" THEN NaN
    ELSE LET m == Abs(a.v) % (2 * PI)
             s == IF m <= PI THEN SinFix(m) ELSE -SinFix(m - PI)
         IN Fin(IF a.v < 0 THEN -s ELSE s)

\* Math.cos
MathCos(a) == IF a.k # "fin" THEN NaN ELSE MathSin(Fin(a.v + HALF_PI))

\* bisection for an angle in lo+1..hi at which the cosine falls to c or below
RECURSIVE AcosIter(_, _, _)
AcosIter(c, lo, hi) ==
    IF hi - lo <= 1 THEN hi
    ELSE LET mid == (lo + hi) \div 2
         IN IF CosFix(mid) <= c THEN AcosIter(c, lo, mid) ELSE AcosIter(c, mid, hi)

AcosTab ==
    [c \in (-SCALE)..SCALE |->
        IF c = SCALE THEN 0
        ELSE IF c = -SCALE THEN PI
        ELSE IF c = 0 THEN HALF_PI
        ELSE AcosIter(c, 0, PI)]

\* Math.acos: NaN outside [-1, 1]
MathAcos(a) ==
    IF a.k # "fin" THEN NaN
    ELSE IF a.v > SCALE \/ a.v < -SCALE THEN NaN
    ELSE Fin(AcosTab[a.v])

\* ------------------------------------------------------------------ Vector2
Vector2(x, y) == [x |-> x, y |-> y]
\* a vector with integer coordinates
Vec(x, y) == Vector2(Num(x), Num(y))

\* Math.sqrt(x * x + y * y); for finite x and y the sum of squares is kept
\* exact and rounded once, so that a normalized component never exceeds 1
length(v) ==
    IF v.x.k = "fin" /\ v.y.k = "fin" THEN Fin(ISqrt(v.x.v * v.x.v + v.y.v * v.y.v))
    ELSE MathSqrt(FAdd(FMul(v.x, v.x), FMul(v.y, v.y)))

normalize(v) ==
    LET len == length(v)
    IN Vector2(FDiv(v.x, len), FDiv(v.y, len))

subtract(a, b) == Vector2(FSub(a.x, b.x), FSub(a.y, b.y))

add(a, b) == Vector2(FAdd(a.x, b.x), FAdd(a.y, b.y))

multiplyScalar(v, s) == Vector2(FMul(v.x, s), FMul(v.y, s))

dot(u, v) == FAdd(FMul(u.x, v.x), FMul(u.y, v.y))

angle(u, v) == MathAcos(dot(normalize(u), normalize(v)))

cross(u, v) == FSub(FMul(u.x, v.y), FMul(u.y, v.x))

rotate(v, ang) ==
    LET cos == MathCos(ang)
        sin == MathSin(ang)
    IN Vector2(FAdd(FMul(cos, v.x), FMul(sin, v.y)),
               FSub(FMul(cos, v.y), FMul(sin, v.x)))

\* ----------------------------------------------------------- RoundedPolygon
\* vertices[i] of a JavaScript array held as a sequence
At(vertices, i) == vertices[i + 1]

\* index % total of JavaScript: the sign follows the dividend
JsRem(index, total) == Sgn(index) * (Abs(index) % total)

\* mutant: an index outside 0..total-1 is clamped to the nearest end
getIndexClamped(total, index) ==
    IF index < 0 THEN 0 ELSE IF index >= total THEN total - 1 ELSE index

getIndex(total, index) ==
    LET i == JsRem(index, total)
    IN IF i < 0 THEN i + total ELSE i

\* mutant: calculateAngleAt computes the angle on every call
computesAngleAlways(points, p) == TRUE

\* the guard `if (!this.points[p])` of calculateAngleAt: an entry is an object,
\* so it is truthy whatever its angle
computesAngle(points, p) == p \notin DOMAIN points

\* this.points is a sparse array: an index is set iff it is in the domain
calculateAngleAt(points, vertices, a, p, b) ==
    IF ~computesAngle(points, p) THEN points
    ELSE LET vA == At(vertices, a)
             vP == At(vertices, p)
             vB == At(vertices, b)
             vPA == subtract(vA, vP)
             vPB == subtract(vB, vP)
         IN points @@ (p :> [vertex |-> vP, angle |-> angle(vPA, vPB)])

getMaxCornerRadius(A, B) ==
    LET s == length(subtract(A.vertex, B.vertex))
        alpha == FDiv(A.angle, Num(2))
        beta == FDiv(B.angle, Num(2))
        gamma == FSub(FSub(Fin(PI), alpha), beta)
    IN FDiv(FMul(FMul(s, MathSin(alpha)), MathSin(beta)), MathSin(gamma))

\* mutant: the cross product is taken from the vector P -> A
sweepOfPA(A, P, C) ==
    LET vPA == subtract(A.vertex, P.vertex)
        vPC == subtract(C.vertex, P.vertex)
    IN IF FLt(cross(vPA, vPC), Num(0)) THEN 0 ELSE 1

\* the sweep flag of the arc at P between A and C
sweepOf(A, P, C) ==
    LET vAP == subtract(P.vertex, A.vertex)
        vPC == subtract(C.vertex, P.vertex)
    IN IF FLt(cross(vAP, vPC), Num(0)) THEN 0 ELSE 1

\* mutant: the arc keeps a reference to the incoming neighbour, not the corner
calculateArcCornerA(arcs, A, P, C, radius) ==
    Append(arcs, [radius |-> radius, p1 |-> P.vertex, p2 |-> P.vertex,
                  corner |-> A, sweep |-> 1, offset |-> Num(0)])

calculateArc(arcs, A, P, C, radius) ==
    LET vP == P.vertex
        vPA == subtract(A.vertex, vP)
        vnPA == normalize(vPA)
        vPC == subtract(C.vertex, vP)
        vnPC == normalize(vPC)
        q == FDiv(radius, MathSin(FDiv(P.angle, Num(2))))
        vPQ == multiplyScalar(normalize(add(vPA, vPC)), q)
        t1Length == dot(vPQ, vnPA)
        vT1 == add(vP, multiplyScalar(vnPA, t1Length))
        t2Length == dot(vPQ, vnPC)
        vT2 == add(vP, multiplyScalar(vnPC, t2Length))
        vQ == add(vP, vPQ)
        vQT1 == subtract(vT1, vQ)
        vQT2 == subtract(vT2, vQ)
    IN Append(arcs, [radius |-> radius,
                     p1 |-> add(vQ, vQT1),
                     p2 |-> add(vQ, vQT2),
                     corner |-> P,
                     sweep |-> sweepOf(A, P, C),
                     offset |-> FSub(q, radius)])

\* the radius handed to calculateArc: the smaller of the two side maxima
\* times the ratio
cornerRadius(points, b, p, d, ratio) ==
    LET mr1 == getMaxCornerRadius(points[p], points[b])
        mr2 == getMaxCornerRadius(points[p], points[d])
        mr == MathMin(mr1, mr2)
    IN FMul(mr, ratio)

processVertexAt(poly, vertices, index, ratio) ==
    LET l == Len(vertices)
        a == getIndex(l, index - 2)
        b == getIndex(l, index - 1)
        p == getIndex(l, index - 0)
        d == getIndex(l, index + 1)
        e == getIndex(l, index + 2)
        pts1 == calculateAngleAt(poly.points, vertices, a, b, p)
        pts2 == calculateAngleAt(pts1, vertices, b, p, d)
        pts3 == calculateAngleAt(pts2, vertices, p, d, e)
    IN [points |-> pts3,
        arcs |-> calculateArc(poly.arcs, pts3[b], pts3[p], pts3[d],
                              cornerRadius(pts3, b, p, d, ratio))]

\* how often the body of calculateAngleAt ran for each index, after the three
\* calls processVertexAt makes for `index`
countAngle(cnt, points, p) ==
    IF computesAngle(points, p) THEN [cnt EXCEPT ![p] = @ + 1] ELSE cnt

angleCountAfter(cnt, points, vertices, index) ==
    LET l == Len(vertices)
        a == getIndex(l, index - 2)
        b == getIndex(l, index - 1)
        p == getIndex(l, index - 0)
        d == getIndex(l, index + 1)
        pts1 == calculateAngleAt(points, vertices, a, b, p)
        pts2 == calculateAngleAt(pts1, vertices, b, p, d)
    IN countAngle(countAngle(countAngle(cnt, points, b), pts1, p), pts2, d)

\* mutant: process keeps the cached points of the earlier call
clearArcsOnly(poly) == [points |-> poly.points, arcs |-> <<>>]

\* process clears the polygon data before its loop
clearPolygon(poly) == [points |-> <<>>, arcs |-> <<>>]

\* the whole of process, from the state `poly` of the instance
RECURSIVE processLoop(_, _, _, _)

\* the loop goes on from index i once processVertexAt has returned `poly`
processNext(poly, vertices, i, ratio) ==
    IF Len(poly.arcs) >= 0 THEN processLoop(poly, vertices, i, ratio) ELSE poly

processLoop(poly, vertices, i, ratio) ==
    IF i >= Len(vertices) THEN poly
    ELSE processNext(processVertexAt(poly, vertices, i, ratio), vertices, i + 1, ratio)

process(poly, vertices, ratio) == processLoop(clearPolygon(poly), vertices, 0, ratio)

\* new RoundedPolygon()
newPolygon == [points |-> <<>>, arcs |-> <<>>]

createFromVertices(vertices, ratio) == process(newPolygon, vertices, ratio)

Pow10(n) == 10 ^ n

\* Math.round: the nearest integer, a half rounds up
MathRound(a) ==
    IF a.k # "fin" THEN a
    ELSE Fin(((2 * a.v + SCALE) \div (2 * SCALE)) * SCALE)

\* a * n and a / n for an integer n > 0
FMulInt(a, n) == IF a.k = "fin" THEN Fin(a.v * n) ELSE a
FDivInt(a, n) == IF a.k = "fin" THEN Fin(TruncDiv(a.v, n)) ELSE a

\* r(value, precision)
r(value, precision) ==
    FDivInt(MathRound(FMulInt(value, Pow10(precision))), Pow10(precision))

\* mutant: the closing line goes to the start of the last arc
pathCommandsOpen(arcs, i, scale, translate, precision) ==
    LET a == arcs[i + 1]
        X(v) == r(FAdd(FMul(v.x, scale), translate.x), precision)
        Y(v) == r(FAdd(FMul(v.y, scale), translate.y), precision)
        first == [cmd |-> IF i = 0 THEN "M" ELSE "L", x |-> X(a.p1), y |-> Y(a.p1)]
        arc == [cmd |-> "A",
                rx |-> r(FMul(a.radius, scale), precision),
                ry |-> r(FMul(a.radius, scale), precision),
                rotation |-> 0, largeArc |-> 0, sweep |-> a.sweep,
                x |-> X(a.p2), y |-> Y(a.p2)]
        close == [cmd |-> "L", x |-> X(a.p1), y |-> Y(a.p1)]
    IN IF i = Len(arcs) - 1 THEN <<first, arc, close>> ELSE <<first, arc>>

\* mutant: the translation is applied before the scaling
pathCommandsTranslateFirst(arcs, i, scale, translate, precision) ==
    LET a == arcs[i + 1]
        X(v) == r(FMul(FAdd(v.x, translate.x), scale), precision)
        Y(v) == r(FMul(FAdd(v.y, translate.y), scale), precision)
        first == [cmd |-> IF i = 0 THEN "M" ELSE "L", x |-> X(a.p1), y |-> Y(a.p1)]
        arc == [cmd |-> "A",
                rx |-> r(FMul(a.radius, scale), precision),
                ry |-> r(FMul(a.radius, scale), precision),
                rotation |-> 0, largeArc |-> 0, sweep |-> a.sweep,
                x |-> X(a.p2), y |-> Y(a.p2)]
        ea == arcs[1]
        close == [cmd |-> "L", x |-> X(ea.p1), y |-> Y(ea.p1)]
    IN IF i = Len(arcs) - 1 THEN <<first, arc, close>> ELSE <<first, arc>>

\* the commands getSVGPathData writes for the arc at index i (0-based)
pathCommands(arcs, i, scale, translate, precision) ==
    LET a == arcs[i + 1]
        X(v) == r(FAdd(FMul(v.x, scale), translate.x), precision)
        Y(v) == r(FAdd(FMul(v.y, scale), translate.y), precision)
        first == [cmd |-> IF i = 0 THEN "M" ELSE "L", x |-> X(a.p1), y |-> Y(a.p1)]
        arc == [cmd |-> "A",
                rx |-> r(FMul(a.radius, scale), precision),
                ry |-> r(FMul(a.radius, scale), precision),
                rotation |-> 0, largeArc |-> 0, sweep |-> a.sweep,
                x |-> X(a.p2), y |-> Y(a.p2)]
        ea == arcs[1]
        close == [cmd |-> "L", x |-> X(ea.p1), y |-> Y(ea.p1)]
    IN IF i = Len(arcs) - 1 THEN <<first, arc, close>> ELSE <<first, arc>>

\* arcs.reduce((d, a, i) => ..., '') from index i on
RECURSIVE pathReduce(_, _, _, _, _, _)
pathReduce(d, arcs, i, scale, translate, precision) ==
    IF i >= Len(arcs) THEN d
    ELSE pathReduce(d \o pathCommands(arcs, i, scale, translate, precision),
                    arcs, i + 1, scale, translate, precision)

getSVGPathData(arcs, scale, translate, precision) ==
    pathReduce(<<>>, arcs, 0, scale, translate, precision)

\* ------------------------------------------- RoundedPolygonClipPathDirective
Fields == {"cornerCount", "outerRadius", "innerRadiusRatio", "cornerRadius", "tilt"}

DEFAULT_ROUNDED_POLYGON_CONFIG ==
    [cornerCount |-> Num(4), outerRadius |-> Num(1),
     innerRadiusRatio |-> Fin((4 * SCALE) \div 10),
     cornerRadius |-> Num(1), tilt |-> Num(0)]

\* { ...DEFAULT_ROUNDED_POLYGON_CONFIG, ...value }
mergeConfig(value) ==
    [f \in Fields |-> IF f \in DOMAIN value THEN value[f]
                      ELSE DEFAULT_ROUNDED_POLYGON_CONFIG[f]]

\* mutant: the tilt is clamped below only
clampConfigTiltOpen(c) ==
    [cornerCount |-> MathMax(Num(3), c.cornerCount),
     outerRadius |-> MathMin(Num(1), MathMax(Num(0), c.outerRadius)),
     innerRadiusRatio |-> MathMin(Num(1), MathMax(Num(0), c.innerRadiusRatio)),
     tilt |-> MathMax(Num(0), c.tilt),
     cornerRadius |-> MathMin(Num(1), MathMax(Num(0), c.cornerRadius))]

\* the clamping of the setter
clampConfig(c) ==
    [cornerCount |-> MathMax(Num(3), c.cornerCount),
     outerRadius |-> MathMin(Num(1), MathMax(Num(0), c.outerRadius)),
     innerRadiusRatio |-> MathMin(Num(1), MathMax(Num(0), c.innerRadiusRatio)),
     tilt |-> MathMin(Num(360), MathMax(Num(0), c.tilt)),
     cornerRadius |-> MathMin(Num(1), MathMax(Num(0), c.cornerRadius))]

\* _viewportSize and _viewportSize / 2
viewportSize == Num(1)
halfViewport == FDiv(viewportSize, Num(2))

\* degrees * (Math.PI / 180)
degToRad(t) == IF t.k = "fin" THEN Fin(TruncDiv(t.v * 1745, 100000)) ELSE t

\* the number of loop iterations of `for (i = 0; i < numPoints; i++)`
loopCount(numPoints) == (numPoints.v + SCALE - 1) \div SCALE

\* the vertices createStarPolygon pushes, from index i and angle ang on
RECURSIVE starVertices(_, _, _, _, _, _)
starVertices(i, n, ang, gamma, outerRadius, innerRadius) ==
    IF i >= n THEN <<>>
    ELSE LET radius == IF i % 2 # 0 THEN innerRadius ELSE outerRadius
             rx == FMul(MathCos(ang), radius)
             ry == FMul(MathSin(ang), radius)
         IN <<Vector2(rx, ry)>> \o
            starVertices(i + 1, n, FAdd(ang, gamma), gamma, outerRadius, innerRadius)

\* rp.arcs.reduce((m, a) => Math.max(m, a.offset), 0)
RECURSIVE maxOffset(_, _, _)
maxOffset(arcs, i, m) ==
    IF i > Len(arcs) THEN m ELSE maxOffset(arcs, i + 1, MathMax(m, arcs[i].offset))

\* mutant: the rescaling without the 0.99 spacing
starScaleNoSpacing(arcs) ==
    LET offset == maxOffset(arcs, 1, Num(0))
        vp2 == halfViewport
    IN IF offset # Num(0) THEN FDiv(vp2, FSub(vp2, offset)) ELSE Num(1)

\* the scale createStarPolygon passes to getSVGPathData
starScale(arcs) ==
    LET offset == maxOffset(arcs, 1, Num(0))
        vp2 == halfViewport
        scale == IF offset # Num(0) THEN FDiv(vp2, FSub(vp2, offset)) ELSE Num(1)
    IN FMul(scale, Fin((99 * SCALE) \div 100))

\* the RoundedPolygon rp createStarPolygon builds from the star's vertices
starRoundedPolygon(corners, outerRadius, innerRadius, tilt, cornerRatio) ==
    LET numPoints == FMul(corners, Num(2))
        gamma == FDiv(Fin(2 * PI), numPoints)
        verts == starVertices(0, loopCount(numPoints), tilt, gamma, outerRadius, innerRadius)
    IN createFromVertices(verts, cornerRatio)

\* the arguments of rp.getSVGPathData(scale, new Vector2(vp2, vp2), 4), with
\* the arcs of rp it runs on
starPathArguments(arcs) ==
    LET vp2 == halfViewport
    IN [arcs |-> arcs, scale |-> starScale(arcs),
        translate |-> Vector2(vp2, vp2), precision |-> 4]

\* the getSVGPathData call createStarPolygon ends with
starPathCall(corners, outerRadius, innerRadius, tilt, cornerRatio) ==
    starPathArguments(
        starRoundedPolygon(corners, outerRadius, innerRadius, tilt, cornerRatio).arcs)

\* what that call returns
starPathData(call) ==
    getSVGPathData(call.arcs, call.scale, call.translate, call.precision)

createStarPolygon(corners, outerRadius, innerRadius, tilt, cornerRatio) ==
    starPathData(starPathCall(corners, outerRadius, innerRadius, tilt, cornerRatio))

\* the arguments createShapePath passes to createStarPolygon, with the
\* cornerRadius createStarPolygon reads from _config
starArguments(c) ==
    LET maxRadius == halfViewport
        outerRadius == FMul(c.outerRadius, maxRadius)
        innerRadius == FMul(FMul(c.outerRadius, c.innerRadiusRatio), maxRadius)
        tilt == degToRad(c.tilt)
    IN <<c.cornerCount, outerRadius, innerRadius, tilt, c.cornerRadius>>

createShapePath(c) ==
    LET a == starArguments(c)
    IN createStarPolygon(a[1], a[2], a[3], a[4], a[5])

\* ------------------------------------------------------------------- inputs
\* vertex coordinates of the engine's callers
Pool == {<<0, 0>>, <<1, 0>>, <<2, 0>>, <<0, 1>>, <<1, 1>>}
ToVertices(vs) == [i \in 1..Len(vs) |-> Vec(vs[i][1], vs[i][2])]
VertexLists == {ToVertices(vs) : vs \in UNION {[1..n -> Pool] : n \in 0..MaxLen}}
\* ratio: 0, 1/2 and 1
Ratios == {Fin(0), Fin(SCALE \div 2), Fin(SCALE)}
\* the vertex lists a used instance is processed with again
ReprocessLists ==
    {ToVertices(vs) : vs \in {<<>>,
                              <<<<0, 0>>, <<1, 1>>>>,
                              <<<<0, 0>>, <<2, 0>>, <<1, 1>>>>,
                              <<<<2, 0>>, <<1, 1>>, <<0, 0>>>>,
                              <<<<0, 0>>, <<1, 0>>, <<1, 1>>, <<0, 1>>>>,
                              <<<<0, 1>>, <<0, 0>>, <<1, 0>>, <<2, 0>>>>}}
\* (scale, translate, precision) of getSVGPathData; the first is its defaults
PathArgs ==
    {<<Num(1), Vec(0, 0), 2>>,
     <<Fin(SCALE + SCALE \div 2), Vec(1, 2), 0>>,
     <<Fin(SCALE + SCALE \div 4), Vec(2, 1), 1>>,
     <<Fin(SCALE \div 2), Vec(1, 1), 4>>}

\* Vector2 arguments
VecCoords == {-1, 0, 1}
Vectors == {Vec(x, y) : x \in VecCoords, y \in VecCoords}
Scalars == {Num(0), Fin(SCALE \div 2), Num(2)}
Angles == {Num(0), Fin(HALF_PI), Fin(PI)}

\* the directive instances and the values bound to their input
Directives == {"a", "b"}
ConfigInputs ==
    {[tilt |-> Num(0)],
     [cornerCount |-> Num(2), outerRadius |-> Fin(SCALE + SCALE \div 2), tilt |-> Num(400)],
     [cornerCount |-> Num(3), innerRadiusRatio |-> Fin((45 * SCALE) \div 100),
      cornerRadius |-> Fin((7 * SCALE) \div 10), tilt |-> Num(270)],
     [cornerCount |-> Num(5), outerRadius |-> Fin(-(SCALE \div 2)), innerRadiusRatio |-> Num(-1),
      cornerRadius |-> Num(-1), tilt |-> Num(-90)],
     [outerRadius |-> Fin(SCALE \div 2), innerRadiusRatio |-> Fin(SCALE + SCALE \div 2),
      cornerRadius |-> Num(2), tilt |-> Num(45)],
     [cornerRadius |-> Num(0)],
     [cornerCount |-> Num(3), innerRadiusRatio |-> Num(0)],
     [cornerCount |-> Num(4), cornerRadius |-> Fin(SCALE \div 2), tilt |-> Num(360)]}

\* this.createShapePath() for each configuration the setter can leave in _config,
\* held as an explicit table
shapePath ==
    [c \in {clampConfig(mergeConfig(value)) : value \in ConfigInputs} |-> createShapePath(c)]
    @@ <<>>

\* the getSVGPathData call createStarPolygon makes for each such configuration
shapeCall ==
    [c \in {clampConfig(mergeConfig(value)) : value \in ConfigInputs} |->
        LET a == starArguments(c) IN starPathCall(a[1], a[2], a[3], a[4], a[5])]
    @@ <<>>

\* -------------------------------------------------------------------- state
VARIABLES
    instance,           \* the RoundedPolygon instance: its points and arcs
    verticesArg,       \* the vertices argument of the current or last process call
    ratioArg,          \* its ratio argument
    idx,            \* the loop variable i of process
    pc,             \* "new": constructed; "loop": inside process; "ready": process returned
    thrown,         \* the error the last engine call raised ("none": it returned)
    calls,          \* how many times process was called on the instance
    out,            \* the last getSVGPathData call: its arguments and the path it returned
    angleCount,     \* per vertex index: how often its angle was computed in this process call
    vcall,          \* the last Vector2 call: operation, arguments, result, error raised
    config,         \* _config of each directive instance
    host,           \* the svg fragments appended to each directive's host element
    style,          \* the clip-path style of each host: <<>> or <<id>>
    instanceCount,  \* the static _instanceCount
    lastSet,        \* the last setter call: <<directive, value>>, <<>> before the first
    setCalls,       \* how many times the setter of each directive was called
    pathCall        \* the last getSVGPathData call of createStarPolygon: arcs and arguments

engineVars == <<instance, verticesArg, ratioArg, idx, pc, thrown, calls, out, angleCount>>
directiveVars == <<config, host, style, instanceCount, lastSet, setCalls, pathCall>>
vars == <<engineVars, vcall, directiveVars>>

NoOut == [called |-> FALSE, d |-> <<>>, scale |-> Num(1), translate |-> Vec(0, 0),
          precision |-> 2]

Init ==
    /\ instance = newPolygon
    /\ verticesArg = <<>>
    /\ ratioArg = Num(1)
    /\ idx = 0
    /\ pc = "new"
    /\ thrown = "none"
    /\ calls = 0
    /\ out = NoOut
    /\ angleCount = <<>>
    /\ vcall = [op |-> "none", args |-> <<>>, result |-> Num(0), thrown |-> "none"]
    /\ config = [dir \in Directives |-> DEFAULT_ROUNDED_POLYGON_CONFIG]
    /\ host = [dir \in Directives |-> <<>>]
    /\ style = [dir \in Directives |-> <<>>]
    /\ instanceCount = 0
    /\ lastSet = <<>>
    /\ setCalls = [dir \in Directives |-> 0]
    /\ pathCall = <<>>

\* ----------------------------------------------------- RoundedPolygon calls
\* process(vertices, ratio) is entered: the polygon data is cleared
ProcessBegin(vs, rt) ==
    /\ pc \in {"new", "ready"}
    /\ calls < MaxCalls
    /\ calls' = calls + 1
    /\ instance' = clearPolygon(instance)
    /\ verticesArg' = vs
    /\ ratioArg' = rt
    /\ idx' = 0
    /\ pc' = "loop"
    /\ thrown' = "none"
    /\ out' = NoOut
    /\ angleCount' = [q \in 0..(Len(vs) - 1) |-> 0]
    /\ UNCHANGED <<vcall, directiveVars>>

\* one iteration of the loop of process
ProcessStep ==
    /\ pc = "loop"
    /\ idx < Len(verticesArg)
    /\ instance' = processVertexAt(instance, verticesArg, idx, ratioArg)
    /\ idx' = idx + 1
    /\ angleCount' = angleCountAfter(angleCount, instance.points, verticesArg, idx)
    /\ UNCHANGED <<verticesArg, ratioArg, pc, thrown, calls, out, vcall, directiveVars>>

\* the loop of process ends and process returns
ProcessReturn ==
    /\ pc = "loop"
    /\ idx >= Len(verticesArg)
    /\ pc' = "ready"
    /\ UNCHANGED <<instance, verticesArg, ratioArg, idx, thrown, calls, out, angleCount, vcall, directiveVars>>

\* getSVGPathData(scale, translate, precision) on the instance
GetSVGPathData(scale, translate, precision) ==
    /\ pc \in {"new", "ready"}
    /\ out' = [called |-> TRUE,
               d |-> getSVGPathData(instance.arcs, scale, translate, precision),
               scale |-> scale, translate |-> translate, precision |-> precision]
    /\ UNCHANGED <<instance, verticesArg, ratioArg, idx, pc, thrown, calls, angleCount, vcall, directiveVars>>

Next ==
    \/ \E vs \in VertexLists, rt \in Ratios : pc = "new" /\ ProcessBegin(vs, rt)
    \/ \E vs \in ReprocessLists, rt \in Ratios : pc = "ready" /\ ProcessBegin(vs, rt)
    \/ ProcessStep
    \/ ProcessReturn
    \/ \E args \in PathArgs : GetSVGPathData(args[1], args[2], args[3])

Spec == Init /\ [][Next]_vars

\* ------------------------------------------------------------ Vector2 calls
\* a call of a Vector2 operation returns `result`; no operation has a throw
Returned(op, args, result) ==
    [op |-> op, args |-> args, result |-> result, thrown |-> "none"]

CallNormalize(v) ==
    /\ vcall' = Returned("normalize", <<v>>, normalize(v))
    /\ UNCHANGED <<engineVars, directiveVars>>
CallAngle(u, v) ==
    /\ vcall' = Returned("angle", <<u, v>>, angle(u, v))
    /\ UNCHANGED <<engineVars, directiveVars>>
CallLength(v) ==
    /\ vcall' = Returned("length", <<v>>, length(v))
    /\ UNCHANGED <<engineVars, directiveVars>>
CallDot(u, v) ==
    /\ vcall' = Returned("dot", <<u, v>>, dot(u, v))
    /\ UNCHANGED <<engineVars, directiveVars>>
CallCross(u, v) ==
    /\ vcall' = Returned("cross", <<u, v>>, cross(u, v))
    /\ UNCHANGED <<engineVars, directiveVars>>
CallAdd(u, v) ==
    /\ vcall' = Returned("add", <<u, v>>, add(u, v))
    /\ UNCHANGED <<engineVars, directiveVars>>
CallSubtract(u, v) ==
    /\ vcall' = Returned("subtract", <<u, v>>, subtract(u, v))
    /\ UNCHANGED <<engineVars, directiveVars>>
CallMultiplyScalar(v, k) ==
    /\ vcall' = Returned("multiplyScalar", <<v, k>>, multiplyScalar(v, k))
    /\ UNCHANGED <<engineVars, directiveVars>>
CallRotate(v, ang) ==
    /\ vcall' = Returned("rotate", <<v, ang>>, rotate(v, ang))
    /\ UNCHANGED <<engineVars, directiveVars>>

NextVector ==
    \/ \E v \in Vectors : CallNormalize(v)
    \/ \E u, v \in Vectors : CallAngle(u, v)
    \/ \E v \in Vectors : CallLength(v)
    \/ \E u, v \in Vectors : CallDot(u, v)
    \/ \E u, v \in Vectors : CallCross(u, v)
    \/ \E u, v \in Vectors : CallAdd(u, v)
    \/ \E u, v \in Vectors : CallSubtract(u, v)
    \/ \E v \in Vectors, k \in Scalars : CallMultiplyScalar(v, k)
    \/ \E v \in Vectors, ang \in Angles : CallRotate(v, ang)

SpecVector == Init /\ [][NextVector]_vars

\* ---------------------------------------------------------- directive calls
\* mutant: drawSvgBackground reads _instanceCount without incrementing it
SetWithoutIncrement(dir, value) ==
    LET c == clampConfig(mergeConfig(value))
        id == instanceCount
    IN /\ Len(host[dir]) < MaxDraws
       /\ config' = [config EXCEPT ![dir] = c]
       /\ instanceCount' = instanceCount
       /\ host' = [host EXCEPT ![dir] = Append(@, [id |-> id, d |-> shapePath[c]])]
       /\ style' = [style EXCEPT ![dir] = <<id>>]
       /\ setCalls' = [setCalls EXCEPT ![dir] = @ + 1]
       /\ lastSet' = <<dir, value>>
       /\ pathCall' = <<shapeCall[c]>>
       /\ UNCHANGED <<engineVars, vcall>>

\* mutant: drawSvgBackground replaces the host's earlier fragments by the new one
SetReplacingFragment(dir, value) ==
    LET c == clampConfig(mergeConfig(value))
        id == instanceCount
    IN /\ instanceCount < MaxDraws
       /\ config' = [config EXCEPT ![dir] = c]
       /\ instanceCount' = instanceCount + 1
       /\ host' = [host EXCEPT ![dir] = <<[id |-> id, d |-> shapePath[c]]>>]
       /\ style' = [style EXCEPT ![dir] = <<id>>]
       /\ setCalls' = [setCalls EXCEPT ![dir] = @ + 1]
       /\ lastSet' = <<dir, value>>
       /\ pathCall' = <<shapeCall[c]>>
       /\ UNCHANGED <<engineVars, vcall>>

\* the setter appRoundedPolygonClipPath of directive `dir`, bound to `value`:
\* merge, clamp, then drawSvgBackground
SetAppRoundedPolygonClipPath(dir, value) ==
    LET c == clampConfig(mergeConfig(value))
        id == instanceCount
    IN /\ instanceCount < MaxDraws
       /\ config' = [config EXCEPT ![dir] = c]
       /\ instanceCount' = instanceCount + 1
       /\ host' = [host EXCEPT ![dir] = Append(@, [id |-> id, d |-> shapePath[c]])]
       /\ style' = [style EXCEPT ![dir] = <<id>>]
       /\ setCalls' = [setCalls EXCEPT ![dir] = @ + 1]
       /\ lastSet' = <<dir, value>>
       /\ pathCall' = <<shapeCall[c]>>
       /\ UNCHANGED <<engineVars, vcall>>

NextDirective ==
    \E dir \in Directives, value \in ConfigInputs : SetAppRoundedPolygonClipPath(dir, value)

SpecDirective == Init /\ [][NextDirective]_vars

\* ------------------------------------------------------------------- claims
\* the vertices of a list are pairwise different
Distinct(vs) == \A i, j \in 1..Len(vs) : i # j => vs[i] # vs[j]
\* every number of a path is finite
FinitePath(d) ==
    \A k \in 1..Len(d) :
        /\ IsFin(d[k].x) /\ IsFin(d[k].y)
        /\ d[k].cmd = "A" => IsFin(d[k].rx) /\ IsFin(d[k].ry)
\* a path point: the stored point scaled, translated and rounded
PathPoint(v, o) ==
    <<r(FAdd(FMul(v.x, o.scale), o.translate.x), o.precision),
      r(FAdd(FMul(v.y, o.scale), o.translate.y), o.precision)>>

\* C1: after process returns on n >= 3 vertices, arcs holds exactly n arcs
\* and arcs[i].corner is the polygon point of vertices[i], in input order.
C1_OneArcPerVertex ==
    (pc = "ready" /\ Len(verticesArg) >= 3) =>
        /\ Len(instance.arcs) = Len(verticesArg)
        /\ \A i \in 0..(Len(verticesArg) - 1) :
            /\ i \in DOMAIN instance.points
            /\ instance.arcs[i + 1].corner = instance.points[i]
            /\ instance.arcs[i + 1].corner.vertex = At(verticesArg, i)

C1_Witness ==
    /\ pc = "ready"
    /\ Len(verticesArg) = 4
    /\ Distinct(verticesArg)
    /\ Len(instance.arcs) = 4
    /\ instance.arcs[4].corner.vertex = verticesArg[4]

\* C2: for n >= 1 arcs the path is M, A, then (L, A) per further arc, then a
\* final L; M is arc 0's p1, each L before an arc is that arc's p1, each A
\* ends at its arc's p2 with large-arc-flag 0 and rotation 0, and the final
\* L has the coordinates of the M command.
C2_PathShape ==
    (out.called /\ Len(instance.arcs) >= 1) =>
        LET n == Len(instance.arcs)
            d == out.d
        IN /\ Len(d) = 2 * n + 1
           /\ d[1].cmd = "M"
           /\ <<d[1].x, d[1].y>> = PathPoint(instance.arcs[1].p1, out)
           /\ \A k \in 1..n :
                /\ d[2 * k].cmd = "A"
                /\ <<d[2 * k].x, d[2 * k].y>> = PathPoint(instance.arcs[k].p2, out)
                /\ d[2 * k].largeArc = 0
                /\ d[2 * k].rotation = 0
           /\ \A k \in 2..n :
                /\ d[2 * k - 1].cmd = "L"
                /\ <<d[2 * k - 1].x, d[2 * k - 1].y>> = PathPoint(instance.arcs[k].p1, out)
           /\ d[2 * n + 1].cmd = "L"
           /\ d[2 * n + 1].x = d[1].x
           /\ d[2 * n + 1].y = d[1].y

C2_Witness ==
    /\ out.called
    /\ Len(instance.arcs) = 4
    /\ Len(out.d) = 9
    /\ FinitePath(out.d)
    /\ <<out.d[7].x, out.d[7].y>> # <<out.d[1].x, out.d[1].y>>
    /\ <<out.d[9].x, out.d[9].y>> = <<out.d[1].x, out.d[1].y>>

\* C3: whatever was processed before, after process returns the points, the
\* arcs and the path are those of a fresh instance built by
\* createFromVertices from the arguments of the last call.
C3_Wholesale ==
    pc = "ready" =>
        /\ instance = createFromVertices(verticesArg, ratioArg)
        /\ out.called =>
             out.d = getSVGPathData(createFromVertices(verticesArg, ratioArg).arcs,
                                    out.scale, out.translate, out.precision)

C3_Witness ==
    /\ pc = "ready"
    /\ calls >= 2
    /\ Len(verticesArg) >= 3
    /\ out.called
    /\ FinitePath(out.d)

\* the ring neighbours of index i (0-based) in a list of n vertices
PrevIdx(i, n) == (i + n - 1) % n
NextIdx(i, n) == (i + 1) % n

\* C5: (for n >= 3 pairwise different vertices) a corner whose interior
\* angle is exactly 0 or pi gets a degenerate arc of radius 0 with p1 and p2
\* at the vertex, and a produced path holds no NaN and no Infinity.
C5_DegenerateCornerGuarded ==
    /\ (pc = "ready" /\ Len(verticesArg) >= 3 /\ Distinct(verticesArg)) =>
         \A i \in 1..Len(instance.arcs) :
            instance.arcs[i].corner.angle \in {Fin(0), Fin(PI)} =>
                /\ instance.arcs[i].radius = Num(0)
                /\ instance.arcs[i].p1 = instance.arcs[i].corner.vertex
                /\ instance.arcs[i].p2 = instance.arcs[i].corner.vertex
    /\ (out.called /\ Len(verticesArg) >= 3 /\ Distinct(verticesArg)) => FinitePath(out.d)

\* C7: the engine called with fewer than 3 vertices raises an
\* InvalidVertexCountError; it never returns normally with a path.
C7_TypedErrorBelowThree ==
    (calls >= 1 /\ Len(verticesArg) < 3 /\ (pc = "ready" \/ out.called)) =>
        thrown = "InvalidVertexCountError"

\* C8: for n >= 3 (pairwise different) vertices and ratio 0 every arc has
\* radius 0 and offset 0, its p1 and p2 at its vertex.
C8_RatioZeroSharp ==
    (pc = "ready" /\ Len(verticesArg) >= 3 /\ Distinct(verticesArg) /\ ratioArg = Num(0)) =>
        \A i \in 1..Len(instance.arcs) :
            /\ instance.arcs[i].radius = Num(0)
            /\ instance.arcs[i].offset = Num(0)
            /\ instance.arcs[i].p1 = verticesArg[i]
            /\ instance.arcs[i].p2 = verticesArg[i]

\* C9 (as stated): the sweep flag is 0 when the cross product of (P -> A)
\* and (P -> C) is negative, and 1 when it is non-negative.
C9_SweepFromPA ==
    (pc = "ready" /\ Len(verticesArg) >= 3) =>
        \A i \in 0..(Len(instance.arcs) - 1) :
            LET n == Len(verticesArg)
                vP == At(verticesArg, i)
                vA == At(verticesArg, PrevIdx(i, n))
                vC == At(verticesArg, NextIdx(i, n))
            IN instance.arcs[i + 1].sweep =
                 (IF FLt(cross(subtract(vA, vP), subtract(vC, vP)), Num(0)) THEN 0 ELSE 1)

\* C9 (amended): the sweep flag is 0 when the cross product of (A -> P) and
\* (P -> C) is negative, and 1 when it is non-negative.
C9_SweepFromAP ==
    (pc = "ready" /\ Len(verticesArg) >= 3) =>
        \A i \in 0..(Len(instance.arcs) - 1) :
            LET n == Len(verticesArg)
                vP == At(verticesArg, i)
                vA == At(verticesArg, PrevIdx(i, n))
                vC == At(verticesArg, NextIdx(i, n))
            IN instance.arcs[i + 1].sweep =
                 (IF FLt(cross(subtract(vP, vA), subtract(vC, vP)), Num(0)) THEN 0 ELSE 1)

C9_Witness ==
    /\ pc = "ready"
    /\ Len(verticesArg) = 4
    /\ Len(instance.arcs) = 4
    /\ Distinct(verticesArg)
    /\ \E i, j \in 1..4 : instance.arcs[i].sweep = 0 /\ instance.arcs[j].sweep = 1
    /\ \A i \in 0..3 :
        ~IsZero(cross(subtract(At(verticesArg, i), At(verticesArg, PrevIdx(i, 4))),
                      subtract(At(verticesArg, NextIdx(i, 4)), At(verticesArg, i))))

\* C10: for the processed vertex list and every ratio r2 >= ratio, each
\* arc's radius is <= its radius under r2; the radius never exceeds the
\* corner's maximum min(maxRadius(P, prev), maxRadius(P, next)) and is
\* exactly that minimum times the ratio.
C10_RadiusMonotone ==
    (pc = "ready" /\ Len(verticesArg) >= 3) =>
        \A i \in 0..(Len(instance.arcs) - 1) :
            LET n == Len(verticesArg)
                P == instance.points[i]
                mr == MathMin(getMaxCornerRadius(P, instance.points[PrevIdx(i, n)]),
                              getMaxCornerRadius(P, instance.points[NextIdx(i, n)]))
            IN /\ instance.arcs[i + 1].radius = FMul(mr, ratioArg)
               /\ FLe(instance.arcs[i + 1].radius, mr)
               /\ \A r2 \in Ratios :
                    FLe(ratioArg, r2) =>
                        FLe(instance.arcs[i + 1].radius,
                            createFromVertices(verticesArg, r2).arcs[i + 1].radius)

\* x clamped into [lo, hi]
Clamped(x, lo, hi) == IF FLt(x, lo) THEN lo ELSE IF FLt(hi, x) THEN hi ELSE x

\* C4: after the setter merged a numeric configuration every field is in its
\* range (cornerCount >= 3, the radii in [0,1], tilt in [0,360]): a value in
\* range is unchanged, one below is the lower bound, one above the upper
\* bound; the path drawn by the same call is built from the clamped values.
C4_ConfigClamped ==
    lastSet # <<>> =>
        LET dir == lastSet[1]
            m == mergeConfig(lastSet[2])
            c == config[dir]
            frag == host[dir][Len(host[dir])]
        IN /\ c.cornerCount = (IF FLt(m.cornerCount, Num(3)) THEN Num(3) ELSE m.cornerCount)
           /\ c.outerRadius = Clamped(m.outerRadius, Num(0), Num(1))
           /\ c.innerRadiusRatio = Clamped(m.innerRadiusRatio, Num(0), Num(1))
           /\ c.cornerRadius = Clamped(m.cornerRadius, Num(0), Num(1))
           /\ c.tilt = Clamped(m.tilt, Num(0), Num(360))
           /\ FLe(Num(3), c.cornerCount)
           /\ FLe(Num(0), c.outerRadius) /\ FLe(c.outerRadius, Num(1))
           /\ FLe(Num(0), c.innerRadiusRatio) /\ FLe(c.innerRadiusRatio, Num(1))
           /\ FLe(Num(0), c.cornerRadius) /\ FLe(c.cornerRadius, Num(1))
           /\ FLe(Num(0), c.tilt) /\ FLe(c.tilt, Num(360))
           /\ Fin((Len(frag.d) - 1) * SCALE) = FMulInt(c.cornerCount, 4)

C4_Witness ==
    /\ lastSet # <<>>
    /\ "cornerCount" \in DOMAIN lastSet[2] /\ lastSet[2].cornerCount = Num(2)
    /\ "outerRadius" \in DOMAIN lastSet[2] /\ lastSet[2].outerRadius = Fin(SCALE + SCALE \div 2)
    /\ "tilt" \in DOMAIN lastSet[2] /\ lastSet[2].tilt = Num(400)
    /\ config[lastSet[1]].cornerCount = Num(3)
    /\ config[lastSet[1]].outerRadius = Num(1)
    /\ config[lastSet[1]].tilt = Num(360)
    /\ config[lastSet[1]].innerRadiusRatio = DEFAULT_ROUNDED_POLYGON_CONFIG.innerRadiusRatio

IsZeroVector(v) == IsZero(v.x) /\ IsZero(v.y)

\* C6: normalize and angle raise a DegenerateVectorError on a zero-length
\* vector (receiver or argument); every other Vector2 operation returns.
C6_DegenerateVectorError ==
    /\ (vcall.op = "normalize" /\ IsZeroVector(vcall.args[1])) =>
            vcall.thrown = "DegenerateVectorError"
    /\ (vcall.op = "angle" /\ (IsZeroVector(vcall.args[1]) \/ IsZeroVector(vcall.args[2]))) =>
            vcall.thrown = "DegenerateVectorError"
    /\ vcall.op \notin {"none", "normalize", "angle"} => vcall.thrown = "none"

\* the ids minted so far, over all hosts
MintedIds == UNION {{host[dir][i].id : i \in 1..Len(host[dir])} : dir \in Directives}

\* C11: _instanceCount never decreases and grows by exactly 1 in every draw,
\* and the id a draw mints differs from every id minted before it, whichever
\* directive instance drew.
C11_CounterMintsFreshIds ==
    [][/\ instanceCount' = instanceCount + 1
       /\ \E dir \in Directives :
            /\ Len(host'[dir]) = Len(host[dir]) + 1
            /\ host'[dir][Len(host'[dir])].id \notin MintedIds]_directiveVars

C11_Witness ==
    /\ instanceCount = 3
    /\ \A dir \in Directives : Len(host[dir]) >= 1
    /\ Cardinality(MintedIds) = 3

\* the offsets of the arcs of the last star polygon
DrawnOffsets == {pathCall[1].arcs[i].offset : i \in 1..Len(pathCall[1].arcs)}
\* 0.99
Spacing == Fin((99 * SCALE) \div 100)

\* C12: the scale createStarPolygon hands to getSVGPathData is
\* 0.99 x halfExtent / (halfExtent - maxOffset) when the largest arc offset
\* maxOffset is not 0 and 0.99 x 1 when it is 0; halfExtent is half the
\* viewport size. (A NaN offset, which has no order, makes the scale NaN.)
C12_StarScale ==
    pathCall # <<>> =>
        LET scale == pathCall[1].scale
            half == FDiv(viewportSize, Num(2))
        IN /\ (\A o \in DrawnOffsets : ~IsNaN(o)) =>
                \E mo \in DrawnOffsets :
                    /\ \A o \in DrawnOffsets : FLe(o, mo)
                    /\ IsZero(mo) => scale = FMul(Num(1), Spacing)
                    /\ ~IsZero(mo) => scale = FMul(FDiv(half, FSub(half, mo)), Spacing)
           /\ (\E o \in DrawnOffsets : IsNaN(o)) => IsNaN(scale)

\* both cases happened: a star with rounded corners, rescaled by more than 1
C12_Witness ==
    /\ pathCall # <<>>
    /\ \A o \in DrawnOffsets : IsFin(o)
    /\ \E o \in DrawnOffsets : FLt(Num(0), o)
    /\ FLt(Num(1), pathCall[1].scale)

C12_WitnessSharp ==
    /\ pathCall # <<>>
    /\ DrawnOffsets = {Num(0)}
    /\ pathCall[1].scale = Spacing

\* the stored point the k-th command of a path over n arcs ends at
StoredPoint(k, n) ==
    IF k = 2 * n + 1 THEN instance.arcs[1].p1
    ELSE IF k % 2 = 1 THEN instance.arcs[(k + 1) \div 2].p1
    ELSE instance.arcs[k \div 2].p2

\* x is v rounded to p decimals: finite x lies within half a unit of the p-th
\* decimal of v (and one unit of the number representation); NaN and
\* Infinity stay what they are
RoundedTo(x, v, p) ==
    IF IsFin(v) THEN IsFin(x) /\ 2 * Pow10(p) * Abs(x.v - v.v) <= SCALE + 2 * Pow10(p)
    ELSE x = v

\* C13: every point getSVGPathData emits is the stored coordinate times
\* scale, then plus the matching translate component, rounded to `precision`
\* decimals; each arc radius is radius x scale rounded the same way, rx = ry,
\* with no translation.
C13_ScaleThenTranslate ==
    (out.called /\ Len(instance.arcs) >= 1) =>
        LET n == Len(instance.arcs)
            d == out.d
        IN /\ Len(d) = 2 * n + 1
           /\ \A k \in 1..(2 * n + 1) :
                LET v == StoredPoint(k, n)
                    tx == FAdd(FMul(v.x, out.scale), out.translate.x)
                    ty == FAdd(FMul(v.y, out.scale), out.translate.y)
                IN /\ d[k].x = r(tx, out.precision)
                   /\ d[k].y = r(ty, out.precision)
                   /\ RoundedTo(d[k].x, tx, out.precision)
                   /\ RoundedTo(d[k].y, ty, out.precision)
           /\ \A k \in 1..n :
                LET rs == FMul(instance.arcs[k].radius, out.scale)
                IN /\ d[2 * k].rx = r(rs, out.precision)
                   /\ d[2 * k].ry = d[2 * k].rx
                   /\ RoundedTo(d[2 * k].rx, rs, out.precision)

\* a finite path of a quadrilateral, scaled by a factor other than 1, shifted
\* by different amounts in x and y, with a coordinate the rounding changed
C13_Witness ==
    /\ out.called
    /\ Len(instance.arcs) = 4
    /\ FinitePath(out.d)
    /\ out.scale # Num(1)
    /\ out.translate.x # out.translate.y
    /\ ~IsZero(out.translate.x) /\ ~IsZero(out.translate.y)
    /\ \E k \in 1..Len(out.d) :
          out.d[k].x # FAdd(FMul(StoredPoint(k, 4).x, out.scale), out.translate.x)

\* the entry calculateAngleAt writes for index q of the ring of n vertices
AngleEntry(q, n) ==
    [vertex |-> At(verticesArg, q),
     angle |-> angle(subtract(At(verticesArg, PrevIdx(q, n)), At(verticesArg, q)),
                     subtract(At(verticesArg, NextIdx(q, n)), At(verticesArg, q)))]

\* C14: in one process call over n >= 3 vertices each index's angle is
\* computed at most once (exactly once iff it has an entry in points, and the
\* entry stays what that computation wrote); a vertex whose arc exists has
\* its own and both neighbours' entries; when process returns points has one
\* entry per vertex index.
C14_AngleMemoized ==
    (pc \in {"loop", "ready"} /\ Len(verticesArg) >= 3) =>
        LET n == Len(verticesArg)
        IN /\ DOMAIN instance.points \subseteq 0..(n - 1)
           /\ \A q \in 0..(n - 1) :
                /\ angleCount[q] <= 1
                /\ angleCount[q] = 1 <=> q \in DOMAIN instance.points
                /\ q \in DOMAIN instance.points => instance.points[q] = AngleEntry(q, n)
           /\ \A k \in 1..Len(instance.arcs) :
                /\ {PrevIdx(k - 1, n), k - 1, NextIdx(k - 1, n)} \subseteq DOMAIN instance.points
                /\ instance.arcs[k].corner = instance.points[k - 1]
           /\ pc = "ready" => DOMAIN instance.points = 0..(n - 1)

\* mid-loop on four vertices: three arcs built, every angle computed once,
\* the later calls for the indices 0..3 having been no-ops
C14_Witness ==
    /\ pc = "loop"
    /\ Len(verticesArg) = 4
    /\ Distinct(verticesArg)
    /\ idx = 3
    /\ Len(instance.arcs) = 3
    /\ \A q \in 0..3 : angleCount[q] = 1

\* the arc of vertex i of a ring of n vertices, built from the vertices
\* (i-1) mod n, i and (i+1) mod n
RingArc(i, n) ==
    LET B == AngleEntry(PrevIdx(i, n), n)
        P == AngleEntry(i, n)
        D == AngleEntry(NextIdx(i, n), n)
        mr == MathMin(getMaxCornerRadius(P, B), getMaxCornerRadius(P, D))
    IN calculateArc(<<>>, B, P, D, FMul(mr, ratioArg))[1]

\* C15: the vertex list is a closed ring: for n >= 3 the arc at vertex i is
\* built from the neighbours (i-1) mod n and (i+1) mod n, and getIndex maps
\* every index in -2..n+1 to the value of 0..n-1 congruent to it modulo n.
C15_ClosedRing ==
    (pc \in {"loop", "ready"} /\ Len(verticesArg) >= 3) =>
        LET n == Len(verticesArg)
        IN /\ \A k \in 1..Len(instance.arcs) : instance.arcs[k] = RingArc(k - 1, n)
           /\ \A index \in (-2)..(n + 1) :
                /\ getIndex(n, index) \in 0..(n - 1)
                /\ (index - getIndex(n, index)) % n = 0

\* a finished quadrilateral: vertex 0 took vertex 3 as predecessor and
\* vertex 3 took vertex 0 as successor
C15_Witness ==
    /\ pc = "ready"
    /\ Len(verticesArg) = 4
    /\ Distinct(verticesArg)
    /\ Len(instance.arcs) = 4
    /\ \A k \in 1..4 : IsFin(instance.arcs[k].p1.x) /\ IsFin(instance.arcs[k].p2.x)
    /\ PrevIdx(0, 4) = 3 /\ instance.arcs[1] = RingArc(0, 4)
    /\ NextIdx(3, 4) = 0 /\ instance.arcs[4] = RingArc(3, 4)

\* the ids of the fragments of one host
HostIds(dir) == {host[dir][i].id : i \in 1..Len(host[dir])}

\* C16: each setter call appends exactly one new fragment to its host and
\* removes none, so after k calls the host holds k fragments with k distinct
\* ids, and the host's clip-path style names the id of the latest call.
C16_FragmentsAccumulate ==
    /\ [](\A dir \in Directives :
            /\ Len(host[dir]) = setCalls[dir]
            /\ Cardinality(HostIds(dir)) = setCalls[dir]
            /\ style[dir] = IF setCalls[dir] = 0 THEN <<>>
                            ELSE <<host[dir][Len(host[dir])].id>>)
    /\ [][\A dir \in Directives :
            /\ Len(host'[dir]) >= Len(host[dir])
            /\ SubSeq(host'[dir], 1, Len(host[dir])) = host[dir]
            /\ setCalls'[dir] # setCalls[dir] =>
                    /\ setCalls'[dir] = setCalls[dir] + 1
                    /\ Len(host'[dir]) = Len(host[dir]) + 1]_directiveVars

\* one host after two calls, the other after one call in between
C16_Witness ==
    \E dir, other \in Directives :
        /\ dir # other
        /\ setCalls[dir] = 2 /\ Len(host[dir]) = 2
        /\ setCalls[other] = 1 /\ Len(host[other]) = 1
        /\ host[dir][1].id < host[other][1].id
        /\ host[other][1].id < host[dir][2].id
        /\ style[dir] = <<host[dir][2].id>>
        /\ style[other] = <<host[other][1].id>>

====
